---------------------------- MODULE Spec2Model ----------------------------
(***************************************************************************)
(* Model of rfm_streamlit_app.py: a Streamlit script.  Streamlit runs the  *)
(* whole script from the top on every interaction, so one action of the    *)
(* model is one run of the script in one sidebar mode.  The state is what  *)
(* survives a run (the sidebar choice, the file held by an uploader) and   *)
(* what the run put on the page.                                           *)
(*                                                                         *)
(* pandas is modelled by what the called functions do: groupby sorts the   *)
(* group keys, agg checks its columns before it aggregates, qcut takes the *)
(* quantiles 0, 1/4, 1/2, 3/4, 1 by linear interpolation, refuses edges    *)
(* that are not unique and bins into right-closed intervals with the       *)
(* lowest edge included.  Quantiles are kept exact by carrying them        *)
(* multiplied by Q.  Timestamps are counted in ticks, TicksPerDay to the   *)
(* day, so that the truncation of Timedelta.days is a real division.       *)
(* Amounts are integers: sums and quantiles are exact, where pandas works  *)
(* in floating point.                                                      *)
(*                                                                         *)
(* The file as it stands does not compile: the chart block of lines        *)
(* 152-173 sits at the top level between the "Visualizations" branch and   *)
(* the "elif" of line 176.  The model reads the sections as they are       *)
(* written: lines 37-150 and 176-189 as the branches of the navigation     *)
(* chain, lines 152-173 as code that runs after the chain.                 *)
(***************************************************************************)
EXTENDS Integers, Sequences, FiniteSets, TLC

\* ------------------------------------------------------------------ bounds
\* Exhaustive ledgers: every sequence of at most MaxRows rows over
\* NumCust customers, the timestamps Ticks and the amounts Amounts.
MaxRows == 3
NumCust == 2
\* Wide ledgers: up to NumWide customers, each with up to MaxFreq rows.
NumWide == 5
MaxFreq == 2

\* pd.Timedelta(days=1), in ticks (a tick is half a day)
TicksPerDay == 2
\* the number of quantiles asked of pd.qcut
Q == 4

Ticks == {0, 1, 4}
Amounts == {-20, 50}
WideTicks == {0, 2, 3, 4}
WideAmounts == {-20, 50, 120}

\* ------------------------------------------------------------- small tools
None == << >>
Some(x) == << x >>
IsSome(o) == Len(o) = 1
TheVal(o) == o[1]

Range(s) == {s[i] : i \in 1..Len(s)}

\* The elements of a set of integers as an ascending sequence.
RECURSIVE SortedSeq(_)
SortedSeq(S) ==
    IF S = {} THEN << >>
    ELSE LET m == CHOOSE x \in S : \A y \in S : x <= y
         IN <<m>> \o SortedSeq(S \ {m})

\* ---------------------------------------------------------------- the CSV
RequiredCols == {"CustomerID", "InvoiceDate", "Amount"}

\* A raw file: its header and its rows; a row has the fields of the header.
Row(c, t, a) == [CustomerID |-> c, InvoiceDate |-> t, Amount |-> a]
Project(r, cols) == [k \in cols |-> r[k]]
File(cols, rws) == [columns |-> cols, rows |-> [i \in 1..Len(rws) |-> Project(rws[i], cols)]]

\* -------------------------------------------------------------- DataFrame
\* A frame: the index (customer ids), the column names in order, the cells.
Frame(idx, cols, cells) == [index |-> idx, columns |-> cols, data |-> cells]

HasColumn(t, name) == name \in Range(t.columns)

\* df[name] = values : replaces the column in place, or appends it.
SetColumn(t, name, values) ==
    Frame(t.index,
          IF HasColumn(t, name) THEN t.columns ELSE Append(t.columns, name),
          [n \in Range(t.columns) \cup {name} |->
              IF n = name THEN values ELSE t.data[n]])

\* df.rename(columns=mapping): names the mapping does not hold are kept.
Renamed(mapping, n) == IF n \in DOMAIN mapping THEN mapping[n] ELSE n
Rename(t, mapping) ==
    Frame(t.index,
          [i \in 1..Len(t.columns) |-> Renamed(mapping, t.columns[i])],
          [n \in {Renamed(mapping, o) : o \in Range(t.columns)} |->
              t.data[CHOOSE o \in Range(t.columns) : Renamed(mapping, o) = n]])

\* A Python dict literal: a repeated key keeps its first position and takes
\* its last value.
RECURSIVE DictLiteral(_)
DictLiteral(pairs) ==
    IF pairs = << >> THEN << >>
    ELSE LET init == DictLiteral(SubSeq(pairs, 1, Len(pairs) - 1))
             last == pairs[Len(pairs)]
         IN IF \E i \in 1..Len(init) : init[i][1] = last[1]
            THEN [i \in 1..Len(init) |->
                     IF init[i][1] = last[1] THEN last ELSE init[i]]
            ELSE Append(init, last)

\* The dict handed to agg, lines 49-53.
AggSpec ==
    DictLiteral(<< <<"InvoiceDate", "recency_lambda">>,
                   <<"InvoiceDate", "count">>,
                   <<"Amount", "sum">> >>)

\* The mapping handed to rename, lines 53-57.
RenameMap ==
    [n \in {"InvoiceDate", "<lambda_0>", "Amount"} |->
        CASE n = "InvoiceDate" -> "Frequency"
          [] n = "<lambda_0>" -> "Recency"
          [] n = "Amount" -> "Monetary"]

\* ------------------------------------------------------------ aggregation
NaT == -1

\* raw_df["InvoiceDate"].max() + pd.Timedelta(days=1); NaT on no rows.
MaxStamp(rws) == CHOOSE t \in {rws[i].InvoiceDate : i \in 1..Len(rws)} :
                    \A i \in 1..Len(rws) : rws[i].InvoiceDate <= t
\* (the latest timestamp itself, without the day added)
RefDateNoOffset(rws) == IF rws = << >> THEN NaT ELSE MaxStamp(rws)
RefDate(rws) == IF rws = << >> THEN NaT ELSE MaxStamp(rws) + TicksPerDay

\* groupby("CustomerID"): the distinct keys, sorted.
GroupKeys(rws) == SortedSeq({rws[i].CustomerID : i \in 1..Len(rws)})

\* The rows of one group, in file order.
GroupRows(rws, c) == SelectSeq(rws, LAMBDA r : r.CustomerID = c)

\* "count": the number of the group's rows.
\* (nunique would count the distinct timestamps instead)
CountDistinctStamps(g) == Cardinality({g[i].InvoiceDate : i \in 1..Len(g)})
RECURSIVE Count(_)
Count(g) == IF g = << >> THEN 0 ELSE 1 + Count(Tail(g))

\* "sum": the group's amounts added up, row after row.
RECURSIVE Sum(_)
Sum(g) == IF g = << >> THEN 0 ELSE Head(g).Amount + Sum(Tail(g))

\* lambda x: (ref_date - x.max()).days : whole days, truncated.
DaysSinceLast(g, ref) == (ref - MaxStamp(g)) \div TicksPerDay

AggFn(name, g) ==
    CASE name = "count" -> Count(g)
      [] name = "sum" -> Sum(g)

\* groupby(...).agg(spec): one column per key of the dict, in its order.
Agg(rws, spec) ==
    LET keys == GroupKeys(rws)
    IN Frame(keys,
             [i \in 1..Len(spec) |-> spec[i][1]],
             [n \in {spec[i][1] : i \in 1..Len(spec)} |->
                 LET fn == (CHOOSE p \in Range(spec) : p[1] = n)[2]
                 IN [c \in Range(keys) |-> AggFn(fn, GroupRows(rws, c))]])

\* Line 58: the Recency of each group.
RecencyColumn(rws, ref) ==
    [c \in Range(GroupKeys(rws)) |-> DaysSinceLast(GroupRows(rws, c), ref)]

\* ------------------------------------------------------------------- qcut
\* Series.rank(method="first"): ranks 1..N, equal values in index order.
Position(idx, c) == CHOOSE i \in 1..Len(idx) : idx[i] = c
\* (method="min" would give equal values one rank, the lowest)
RankMin(idx, v) ==
    [c \in Range(idx) |-> 1 + Cardinality({d \in Range(idx) : v[d] < v[c]})]
RankFirst(idx, v) ==
    [c \in Range(idx) |->
        Cardinality({d \in Range(idx) : v[d] < v[c]})
        + Cardinality({d \in Range(idx) :
                         v[d] = v[c] /\ Position(idx, d) <= Position(idx, c)})]

\* The values in ascending order.
SortedValues(idx, v) ==
    [k \in 1..Len(idx) |->
        CHOOSE x \in {v[c] : c \in Range(idx)} :
            /\ Cardinality({d \in Range(idx) : v[d] < x}) < k
            /\ k <= Cardinality({d \in Range(idx) : v[d] <= x})]

\* Q times the quantile k/Q of the sorted values s (linear interpolation
\* between the two nearest order statistics).
QuantileQ(s, k) ==
    LET num == k * (Len(s) - 1)
        lo == num \div Q
        rem == num % Q
    IN IF rem = 0 THEN Q * s[lo + 1]
       ELSE Q * s[lo + 1] + rem * (s[lo + 2] - s[lo + 1])

\* The Q+1 bin edges of qcut, times Q.  No value gives no edge (NaN).
BinEdges(idx, v) ==
    IF idx = << >> THEN << >>
    ELSE LET s == SortedValues(idx, v)
         IN [k \in 1..(Q + 1) |-> QuantileQ(s, k - 1)]

\* duplicates="raise": the edges must be pairwise different.
\* (a test that passes when there is no edge at all)
EdgesUniqueOrNone(e) == \A i, j \in 1..Len(e) : i # j => e[i] # e[j]
EdgesUnique(e) ==
    /\ e # << >>
    /\ \A i, j \in 1..Len(e) : i # j => e[i] # e[j]

\* The bin of x: searchsorted(side="left") over the edges, the lowest edge
\* included in the first bin.
BinOf(e, x) ==
    IF Q * x = e[1] THEN 1
    ELSE Cardinality({k \in 1..Len(e) : e[k] < Q * x})

\* pd.qcut(values, Q, labels): None when it raises "Bin edges must be unique".
QCut(idx, v, labels) ==
    LET e == BinEdges(idx, v)
    IN IF ~EdgesUnique(e) THEN None
       ELSE Some([c \in Range(idx) |-> labels[BinOf(e, v[c])]])

\* The labels of lines 61-63: reversed for Recency.  (RLabelsAscending and
\* FMLabelsFromZero are the labels not reversed, and counted from 0.)
RLabelsAscending == <<1, 2, 3, 4>>
RLabels == <<4, 3, 2, 1>>
FMLabelsFromZero == <<0, 1, 2, 3>>
FMLabels == <<1, 2, 3, 4>>

\* astype(str) of a score, and line 64's concatenation.
Digits == <<"0", "1", "2", "3", "4", "5", "6", "7", "8", "9">>
RECURSIVE AsStr(_)
AsStr(n) == IF n < 10 THEN Digits[n + 1] ELSE AsStr(n \div 10) \o Digits[(n % 10) + 1]

RfmScoreColumn(t) ==
    [c \in Range(t.index) |->
        AsStr(t.data["R_Score"][c]) \o AsStr(t.data["F_Score"][c])
            \o AsStr(t.data["M_Score"][c])]

\* ------------------------------------------- "Upload Raw Transactions"
\* The steps of lines 42-70 in order; a run ends at the step that raises.
Steps == <<"read_csv", "ref_date", "groupby", "agg", "Recency", "R_Score",
           "F_Score", "M_Score", "RFM_Score", "display", "download">>
StepNo(s) == CHOOSE i \in 1..Len(Steps) : Steps[i] = s

\* What a run leaves: the step that raised ("" when none did), whether the
\* exception was caught by line 72, the local rfm (if assigned), the table
\* put on the page, the CSV offered for download.
Outcome(raisedAt, caught, local, table, csv) ==
    [raised |-> raisedAt, caught |-> caught, rfm |-> local,
     shown |-> table, csv |-> csv]

\* rfm.reset_index(): the index becomes the first column.
ResetIndex(t) ==
    Frame([i \in 1..Len(t.index) |-> i - 1],
          <<"CustomerID">> \o t.columns,
          [n \in Range(t.columns) \cup {"CustomerID"} |->
              [i \in 0..(Len(t.index) - 1) |->
                  IF n = "CustomerID" THEN t.index[i + 1]
                  ELSE t.data[n][t.index[i + 1]]]])

\* Lines 61-70, from the aggregated table on.
Score(t) ==
    LET r == QCut(t.index, t.data["Recency"], RLabels)
        t1 == SetColumn(t, "R_Score", TheVal(r))
        f == QCut(t.index, RankFirst(t.index, t.data["Frequency"]), FMLabels)
        t2 == SetColumn(t1, "F_Score", TheVal(f))
        m == QCut(t.index, t.data["Monetary"], FMLabels)
        t3 == SetColumn(t2, "M_Score", TheVal(m))
        t4 == SetColumn(t3, "RFM_Score", RfmScoreColumn(t3))
    IN IF r = None THEN Outcome("R_Score", TRUE, Some(t), None, None)
       ELSE IF f = None THEN Outcome("F_Score", TRUE, Some(t1), None, None)
       ELSE IF m = None THEN Outcome("M_Score", TRUE, Some(t2), None, None)
       ELSE Outcome("", FALSE, Some(t4), Some(ResetIndex(t4)), Some(ResetIndex(t4)))

\* Lines 42-73 on an uploaded file.
ComputeRfm(file) ==
    IF "InvoiceDate" \notin file.columns
    THEN Outcome("read_csv", FALSE, None, None, None)
    ELSE IF "CustomerID" \notin file.columns
    THEN Outcome("groupby", TRUE, None, None, None)
    ELSE IF \E i \in 1..Len(AggSpec) : AggSpec[i][1] \notin file.columns
    THEN Outcome("agg", TRUE, None, None, None)
    ELSE LET ref == RefDate(file.rows)
             t0 == Rename(Agg(file.rows, AggSpec), RenameMap)
             t1 == SetColumn(t0, "Recency", RecencyColumn(file.rows, ref))
             t2 == Rename(t1, [n \in {"InvoiceDate"} |-> "Frequency"])
         IN Score(t2)

\* ---------------------------------------------- generate_cluster_insight
\* Lines 24-34; the returned text is named by its first line.
\* (generate_cluster_insight_strict tests frequency > 3 in the first rule.)
generate_cluster_insight_strict(recency, frequency, monetary) ==
    IF recency < 30 /\ frequency > 3 /\ monetary > 3000
    THEN "Loyal & High-Value Customers"
    ELSE IF recency > 60 /\ frequency <= 1
    THEN "At Risk or Churned Customers"
    ELSE IF frequency > 2 /\ monetary < 1000
    THEN "Engaged but Low Spending"
    ELSE IF recency < 40 /\ frequency = 1
    THEN "New or One-Time Shoppers"
    ELSE "Moderate Activity Customers"
generate_cluster_insight(recency, frequency, monetary) ==
    IF recency < 30 /\ frequency >= 3 /\ monetary > 3000
    THEN "Loyal & High-Value Customers"
    ELSE IF recency > 60 /\ frequency <= 1
    THEN "At Risk or Churned Customers"
    ELSE IF frequency > 2 /\ monetary < 1000
    THEN "Engaged but Low Spending"
    ELSE IF recency < 40 /\ frequency = 1
    THEN "New or One-Time Shoppers"
    ELSE "Moderate Activity Customers"

\* ------------------------------------------------------------- the script
Modes == {"Upload RFM File", "Upload Raw Transactions", "Explore Clusters",
          "Visualizations", "Download & Summary"}

\* Lines 1-34 bind st, pd, sns, plt, app_mode and the insight function:
\* when the navigation chain starts, the name rfm is bound to nothing, and
\* nothing is read back from an earlier run.
RfmAtScriptStart == None

\* What a run puts on the page: the outcome of the branch, the branch's
\* message, the outcome of the chart block.
Page(outcome, msg, chart) == [result |-> outcome, message |-> msg, counts |-> chart]
Nothing == Outcome("", FALSE, None, None, None)

\* Lines 37-73.
UploadRawTransactions(raw) ==
    IF raw = None THEN Nothing ELSE ComputeRfm(TheVal(raw))

\* Lines 76-82.
UploadRfmFile(uploaded) ==
    IF uploaded = None THEN Nothing
    ELSE Outcome("", FALSE, uploaded, uploaded, None)

\* Lines 85-117.
ExploreClusters(rfm) ==
    IF rfm # None
    THEN IF HasColumn(TheVal(rfm), "Cluster")
         THEN "Filter by Customer Cluster"
         ELSE "Cluster column not found in your data."
    ELSE "Please upload a CSV file in 'Upload RFM File' section."

\* Lines 120-150.
Visualizations(rfm) ==
    IF rfm # None /\ HasColumn(TheVal(rfm), "Cluster")
    THEN "Recency vs Frequency by Cluster"
    ELSE "Please upload and prepare your data in earlier steps."

\* Lines 176-189.
DownloadSummary(rfm) ==
    IF rfm # None
    THEN Page(Outcome("", FALSE, rfm, None, rfm), "Download Segmented Data", "")
    ELSE Page(Nothing, "Please upload and process RFM data first.", "")

\* Lines 152-173, which read rfm whatever the branch left.
CountChart(rfm) ==
    IF rfm = None THEN "NameError"
    ELSE IF HasColumn(TheVal(rfm), "Segment") THEN "Customer Count by Segment"
    ELSE IF HasColumn(TheVal(rfm), "Cluster") THEN "Customer Count by Cluster"
    ELSE "No 'Segment' or 'Cluster' column available to show counts."

\* One run of the script.
RunScript(mode, raw, uploaded) ==
    LET rfm0 == RfmAtScriptStart
        branch ==
            CASE mode = "Upload Raw Transactions" ->
                    Page(UploadRawTransactions(raw), "", "")
              [] mode = "Upload RFM File" ->
                    Page(UploadRfmFile(uploaded), "", "")
              [] mode = "Explore Clusters" ->
                    Page(Outcome("", FALSE, rfm0, None, None), ExploreClusters(rfm0), "")
              [] mode = "Visualizations" ->
                    Page(Outcome("", FALSE, rfm0, None, None), Visualizations(rfm0), "")
              [] mode = "Download & Summary" -> DownloadSummary(rfm0)
    IN IF branch.result.raised # "" /\ ~branch.result.caught
       THEN branch
       ELSE Page(branch.result, branch.message, CountChart(branch.result.rfm))

\* ------------------------------------------------------------- the inputs
Seqs(S, n) == UNION {[1..k -> S] : k \in 0..n}

\* Every ledger of at most MaxRows rows.
SmallRows == {Row(c, t, a) : c \in 1..NumCust, t \in Ticks, a \in Amounts}
SmallLedgers == Seqs(SmallRows, MaxRows)

\* A ledger of n customers, written last customer first: customer i has
\* f[i] rows of amount a[i], the last of them at tick t[i], the others at 0.
RECURSIVE WideLedger(_, _, _, _)
WideLedger(n, f, t, a) ==
    IF n = 0 THEN << >>
    ELSE [k \in 1..f[n] |-> Row(n, IF k = f[n] THEN t[n] ELSE 0, a[n])]
         \o WideLedger(n - 1, f, t, a)

\* Wide ledgers in which one of the three metrics varies freely.
WideLedgers ==
    UNION {
        {WideLedger(n, f, [i \in 1..n |-> TicksPerDay * i], [i \in 1..n |-> 10 * i]) :
            f \in [1..n -> 1..MaxFreq]}
        \cup {WideLedger(n, [i \in 1..n |-> 1], t, [i \in 1..n |-> 10 * i]) :
            t \in [1..n -> WideTicks]}
        \cup {WideLedger(n, [i \in 1..n |-> 1], [i \in 1..n |-> TicksPerDay * i], a) :
            a \in [1..n -> WideAmounts]}
        : n \in 1..NumWide}

\* The raw files a user uploads: a full header over any ledger, or a header
\* that lacks columns over a ledger of at most one row.
RawFiles ==
    {File(RequiredCols, l) : l \in SmallLedgers \cup WideLedgers}
    \cup {File(cols, l) : cols \in (SUBSET RequiredCols) \ {RequiredCols, {}},
                          l \in Seqs(SmallRows, 1)}
    \cup {File({}, << >>)}

\* The RFM files a user uploads: two customers, with or without the
\* Cluster and Segment columns.
RfmFile(extra) ==
    Frame(<<0, 1>>,
          <<"Recency", "Frequency", "Monetary">> \o extra,
          [n \in {"Recency", "Frequency", "Monetary"} \cup Range(extra) |->
              CASE n = "Recency" -> <<10, 90>>
                [] n = "Frequency" -> <<5, 1>>
                [] n = "Monetary" -> <<5000, 20>>
                [] n = "Cluster" -> <<0, 1>>
                [] n = "Segment" -> <<"Loyal", "At Risk">>])
RfmFiles == {RfmFile(<< >>), RfmFile(<<"Cluster">>), RfmFile(<<"Segment">>),
             RfmFile(<<"Cluster", "Segment">>)}

InsightRecency == {10, 29, 30, 39, 40, 60, 61, 90}
InsightFrequency == {0, 1, 2, 3, 5}
InsightMonetary == {20, 999, 1000, 3000, 3001, 5000}

\* ---------------------------------------------------------------- the app
VARIABLES
    app_mode,       \* the sidebar choice
    raw_file,       \* the file held by the uploader of key "raw"
    uploaded_file,  \* the file held by the RFM uploader
    page,           \* what the last run of the script put on the page
    produced,       \* history: some earlier run uploaded or computed a table
    triple,         \* the arguments of generate_cluster_insight
    insight         \* its result

vars == <<app_mode, raw_file, uploaded_file, page, produced, triple, insight>>

Rerun(mode, raw, uploaded) ==
    /\ app_mode' = mode
    /\ raw_file' = raw
    /\ uploaded_file' = uploaded
    /\ page' = RunScript(mode, raw, uploaded)
    /\ produced' = (produced \/ page'.result.shown # None)
    /\ UNCHANGED <<triple, insight>>

Init ==
    /\ app_mode = "Upload RFM File"
    /\ raw_file = None
    /\ uploaded_file = None
    /\ page = RunScript("Upload RFM File", None, None)
    /\ produced = FALSE
    /\ triple = <<0, 0, 0>>
    /\ insight = ""

\* The sidebar radio, line 11: an uploader that is not drawn loses its file.
Navigate(mode) ==
    /\ mode # app_mode
    /\ Rerun(mode, None, None)

\* The uploader of line 39 receives a file.
UploadRaw ==
    /\ app_mode = "Upload Raw Transactions"
    /\ raw_file = None
    /\ \E file \in RawFiles : Rerun(app_mode, Some(file), None)

\* The user removes the file from the uploader of line 39.
RemoveRaw ==
    /\ raw_file # None
    /\ Rerun(app_mode, None, None)

\* The uploader of line 77 receives a file.
UploadRfm ==
    /\ app_mode = "Upload RFM File"
    /\ uploaded_file = None
    /\ \E file \in RfmFiles : Rerun(app_mode, None, Some(file))

\* The user removes the file from the uploader of line 77.
RemoveRfm ==
    /\ uploaded_file # None
    /\ Rerun(app_mode, None, None)

Next ==
    \/ \E mode \in Modes : Navigate(mode)
    \/ UploadRaw
    \/ RemoveRaw
    \/ UploadRfm
    \/ RemoveRfm

Spec == Init /\ [][Next]_vars

\* generate_cluster_insight on its own: any triple, then the call.
InsightInit ==
    /\ app_mode = "Explore Clusters"
    /\ raw_file = None
    /\ uploaded_file = None
    /\ page = RunScript("Explore Clusters", None, None)
    /\ produced = FALSE
    /\ triple \in InsightRecency \X InsightFrequency \X InsightMonetary
    /\ insight = ""

CallInsight ==
    /\ insight = ""
    /\ insight' = generate_cluster_insight(triple[1], triple[2], triple[3])
    /\ UNCHANGED <<app_mode, raw_file, uploaded_file, page, produced, triple>>

InsightNext == CallInsight

InsightSpec == InsightInit /\ [][InsightNext]_vars

\* ------------------------------------------------------------- the claims
\* The run at hand computed from a raw file.
RawRun == app_mode = "Upload Raw Transactions" /\ raw_file # None
Ledger == TheVal(raw_file).rows
FullHeader == TheVal(raw_file).columns = RequiredCols
LedgerCustomers == {Ledger[i].CustomerID : i \in 1..Len(Ledger)}
\* The run returned a table: it is on the page and offered for download.
Returned == RawRun /\ page.result.csv # None
ReturnedTable == TheVal(page.result.shown)
\* The frame the run built, returned or not.
Built == RawRun /\ page.result.rfm # None
BuiltTable == TheVal(page.result.rfm)
Cell(t, col, i) == t.data[col][i]

\* C1: a returned table has exactly one row per distinct CustomerID of the
\* ledger, and the row's Frequency is the number of ledger rows of that
\* customer, so at least 1.
C1_OneRowPerCustomer ==
    Returned =>
        LET t == ReturnedTable
        IN /\ Len(t.index) = Cardinality(LedgerCustomers)
           /\ {Cell(t, "CustomerID", i) : i \in Range(t.index)} = LedgerCustomers
           /\ \A i \in Range(t.index) :
                 /\ Cell(t, "Frequency", i) =
                        Cardinality({k \in 1..Len(Ledger) :
                                        Ledger[k].CustomerID = Cell(t, "CustomerID", i)})
                 /\ Cell(t, "Frequency", i) >= 1

C1_Witness ==
    /\ Returned
    /\ Len(ReturnedTable.index) >= 2
    /\ \E i \in Range(ReturnedTable.index) : Cell(ReturnedTable, "Frequency", i) >= 2

\* C2: with the reference date one day after the latest timestamp of the
\* ledger, every Recency the run computes is a whole number of days, at
\* least 1, and it is 1 for a customer who holds the latest transaction.
HoldsLatest(c) ==
    \E k \in 1..Len(Ledger) :
        /\ Ledger[k].CustomerID = c
        /\ \A j \in 1..Len(Ledger) : Ledger[j].InvoiceDate <= Ledger[k].InvoiceDate
C2_RecencyAtLeastOne ==
    (Built /\ HasColumn(BuiltTable, "Recency")) =>
        \A c \in Range(BuiltTable.index) :
            /\ Cell(BuiltTable, "Recency", c) \in Nat
            /\ Cell(BuiltTable, "Recency", c) >= 1
            /\ HoldsLatest(c) => Cell(BuiltTable, "Recency", c) = 1

\* A returned table with a customer at Recency 1 and another whose last
\* transaction is not a whole number of days before the latest one.
LastStampOf(c) ==
    CHOOSE t \in {Ledger[k].InvoiceDate : k \in {j \in 1..Len(Ledger) : Ledger[j].CustomerID = c}} :
        \A k \in 1..Len(Ledger) : Ledger[k].CustomerID = c => Ledger[k].InvoiceDate <= t
C2_Witness ==
    /\ Returned
    /\ \E c, d \in LedgerCustomers :
          /\ HoldsLatest(c)
          /\ Cell(BuiltTable, "Recency", c) = 1
          /\ ~HoldsLatest(d)
          /\ (LastStampOf(c) - LastStampOf(d)) % TicksPerDay # 0
          /\ Cell(BuiltTable, "Recency", d) >= 2

\* C3: in a returned table every R_Score, F_Score and M_Score is one of 1, 2,
\* 3, 4 and RFM_Score is the three characters R, F, M in that order.
ScoreChar == <<"1", "2", "3", "4">>
C3_ScoresInRange ==
    Returned =>
        LET t == ReturnedTable
        IN \A i \in Range(t.index) :
              /\ Cell(t, "R_Score", i) \in 1..4
              /\ Cell(t, "F_Score", i) \in 1..4
              /\ Cell(t, "M_Score", i) \in 1..4
              /\ Len(Cell(t, "RFM_Score", i)) = 3
              /\ Cell(t, "RFM_Score", i) =
                    ScoreChar[Cell(t, "R_Score", i)] \o ScoreChar[Cell(t, "F_Score", i)]
                        \o ScoreChar[Cell(t, "M_Score", i)]

\* A returned table with a row whose three scores are pairwise different.
C3_Witness ==
    /\ Returned
    /\ \E i \in Range(ReturnedTable.index) :
          /\ Cell(ReturnedTable, "R_Score", i) # Cell(ReturnedTable, "F_Score", i)
          /\ Cell(ReturnedTable, "F_Score", i) # Cell(ReturnedTable, "M_Score", i)
          /\ Cell(ReturnedTable, "R_Score", i) # Cell(ReturnedTable, "M_Score", i)

\* C4: in a returned table a smaller Recency never has a smaller R_Score,
\* a smaller Frequency never has a larger F_Score and a smaller Monetary
\* never has a larger M_Score.
C4_ScoresMonotone ==
    Returned =>
        LET t == ReturnedTable
        IN \A i, j \in Range(t.index) :
              /\ Cell(t, "Recency", i) < Cell(t, "Recency", j)
                    => Cell(t, "R_Score", i) >= Cell(t, "R_Score", j)
              /\ Cell(t, "Frequency", i) < Cell(t, "Frequency", j)
                    => Cell(t, "F_Score", i) <= Cell(t, "F_Score", j)
              /\ Cell(t, "Monetary", i) < Cell(t, "Monetary", j)
                    => Cell(t, "M_Score", i) <= Cell(t, "M_Score", j)

\* A returned table of four customers or more with two customers apart in
\* each metric, and two customers of equal Recency.
C4_Witness ==
    /\ Returned
    /\ Len(ReturnedTable.index) >= 4
    /\ \E i, j \in Range(ReturnedTable.index) :
          /\ Cell(ReturnedTable, "Recency", i) < Cell(ReturnedTable, "Recency", j)
          /\ Cell(ReturnedTable, "R_Score", i) > Cell(ReturnedTable, "R_Score", j)
    /\ \E i, j \in Range(ReturnedTable.index) :
          /\ i # j
          /\ Cell(ReturnedTable, "Recency", i) = Cell(ReturnedTable, "Recency", j)
    /\ \E i, j \in Range(ReturnedTable.index) :
          Cell(ReturnedTable, "Monetary", i) < Cell(ReturnedTable, "Monetary", j)

\* C5 (as claimed): when Recency, Frequency or Monetary has fewer than 4
\* distinct values over the customers, the run raises in a scoring step and
\* returns no table.
DistinctValues(t, col) == Cardinality({Cell(t, col, c) : c \in Range(t.index)})
C5_FewDistinctValuesFail ==
    (Built /\ HasColumn(BuiltTable, "Recency")
        /\ \E col \in {"Recency", "Frequency", "Monetary"} :
              DistinctValues(BuiltTable, col) < 4) =>
        /\ page.result.raised \in {"R_Score", "F_Score", "M_Score"}
        /\ page.result.shown = None
        /\ page.result.csv = None

\* C6 (as claimed): a file that lacks a required column or has no row makes
\* the run raise before any aggregation or scoring step has run, and no
\* table is shown or offered.
InvalidLedger == RawRun /\ (~FullHeader \/ Ledger = << >>)
C7_ColumnOrder ==
    Returned =>
        /\ Range(BuiltTable.index) = LedgerCustomers
        /\ BuiltTable.columns = <<"Recency", "Frequency", "Monetary",
                                  "R_Score", "F_Score", "M_Score", "RFM_Score">>

\* C8: generate_cluster_insight returns the label of the first rule of the
\* table that the triple satisfies, the fallback when none does; (10, 5,
\* 5000) is Loyal & High-Value and (90, 1, 20) is At Risk / Churned.
RuleHolds(k, r, f, m) ==
    CASE k = 1 -> r < 30 /\ f >= 3 /\ m > 3000
      [] k = 2 -> r > 60 /\ f <= 1
      [] k = 3 -> f > 2 /\ m < 1000
      [] k = 4 -> r < 40 /\ f = 1
      [] OTHER -> TRUE
FirstRule(r, f, m) ==
    CHOOSE k \in 1..5 :
        /\ RuleHolds(k, r, f, m)
        /\ \A j \in 1..(k - 1) : ~RuleHolds(j, r, f, m)
RuleLabel == <<"Loyal & High-Value Customers", "At Risk or Churned Customers",
               "Engaged but Low Spending", "New or One-Time Shoppers",
               "Moderate Activity Customers">>
C8_FirstMatchingRule ==
    insight # "" =>
        /\ insight = RuleLabel[FirstRule(triple[1], triple[2], triple[3])]
        /\ triple = <<10, 5, 5000>> => insight = "Loyal & High-Value Customers"
        /\ triple = <<90, 1, 20>> => insight = "At Risk or Churned Customers"

C8_Witness ==
    /\ triple = <<10, 5, 5000>>
    /\ insight = "Loyal & High-Value Customers"

\* C9: the rank F_Score is cut on gives the N customers the distinct ranks
\* 1..N, equal frequencies in table order; with 4 customers or more the
\* F_Score step does not raise, whatever the ties in Frequency, and the four
\* F_Score groups differ in size by at most 1.
GroupSize(t, k) == Cardinality({c \in Range(t.index) : Cell(t, "F_Score", c) = k})
FrequencyRank == RankFirst(BuiltTable.index, BuiltTable.data["Frequency"])
C9_FrequencyQuartilesEven ==
    (RawRun /\ FullHeader /\ Cardinality(LedgerCustomers) >= 4) =>
        /\ page.result.raised # "F_Score"
        /\ {FrequencyRank[c] : c \in LedgerCustomers} = 1..Cardinality(LedgerCustomers)
        /\ \A c, d \in LedgerCustomers :
              (c < d /\ Cell(BuiltTable, "Frequency", c) = Cell(BuiltTable, "Frequency", d))
                  => FrequencyRank[c] < FrequencyRank[d]
        /\ (Built /\ HasColumn(BuiltTable, "F_Score")) =>
              \A k, l \in 1..4 :
                  GroupSize(BuiltTable, k) <= GroupSize(BuiltTable, l) + 1

\* Five customers, each with Frequency 1: the table is returned and the
\* F_Score groups are not all of one size.
C9_Witness ==
    /\ Returned
    /\ Cardinality(LedgerCustomers) = 5
    /\ \A c \in LedgerCustomers : Cell(BuiltTable, "Frequency", c) = 1
    /\ \E k, l \in 1..4 : GroupSize(BuiltTable, k) # GroupSize(BuiltTable, l)

\* C10 (as claimed): once a table has been uploaded or computed, the
\* sections Explore Clusters, Visualizations and Download & Summary do not
\* show their "please upload" message.
PleaseUpload == {"Please upload a CSV file in 'Upload RFM File' section.",
                 "Please upload and prepare your data in earlier steps.",
                 "Please upload and process RFM data first."}
C10_TableCarriedAcrossSections ==
    (produced /\ app_mode \in {"Explore Clusters", "Visualizations", "Download & Summary"})
        => page.message \notin PleaseUpload

=============================================================================
